---- MODULE Spec2Model ----
(***************************************************************************)
(* Career-counselling chatbot: the Flask routes of src/app.py over the     *)
(* SQLite store of src/database.py, driven by one browser cookie.          *)
(*                                                                         *)
(* The store's three tables are sequences in rowid order.  A text is a     *)
(* sequence of characters.  CURRENT_TIMESTAMP is the clock `now`: Tick is  *)
(* a second passing between two steps, and save_message, which runs two    *)
(* SQL statements reading CURRENT_TIMESTAMP, lets the clock advance from   *)
(* one statement to the next.                                              *)
(* Several requests can fall in one second.                                *)
(* SQLite yields rows that tie on the ORDER BY key in scan (rowid) order;  *)
(* ByTimestampAsc/ByUpdatedAtDesc do so.                                   *)
(*                                                                         *)
(* The server handles requests on threads (app.run, src/app.py 390), so    *)
(* requests overlap.  Receive is a request arriving with the cookie the    *)
(* browser holds then; the handler works on that session, one step per     *)
(* database transaction (SignupCreateUser .. ApiUpdateProfileSave), with   *)
(* its locals in `inflight`; Deliver is its response reaching the browser, *)
(* which then replaces the cookie if the handler wrote the session.  A     *)
(* request is the steps of one thread from Receive to Deliver; the steps   *)
(* of the other thread fall anywhere between them.                         *)
(***************************************************************************)
EXTENDS Integers, Sequences, FiniteSets, TLC

VARIABLES users, sessions, messages, cookie, now, model, retriever, inflight, resp

vars == <<users, sessions, messages, cookie, now, model, retriever, inflight, resp>>

store == <<users, sessions, messages>>

(* ------------------------------ bounds --------------------------------- *)
MaxTime == 1
MaxServed == 2
MaxRequests == 3
MaxRequestsHistory == 5

(* ------------------------------ inputs --------------------------------- *)
Usernames == {"alice", "bob"}
Emails == {"a@x.com", "b@x.com"}
Passwords == {"pw", "bad"}
SignupPasswords == {"pw"}
FullNames == {""}
Whitespace ==
    {"\t", "\n", "U+000B", "\f", "\r", "U+001C", "U+001D", "U+001E", "U+001F", " ",
     "U+0085", "U+00A0", "U+1680", "U+2000", "U+2001", "U+2002", "U+2003", "U+2004",
     "U+2005", "U+2006", "U+2007", "U+2008", "U+2009", "U+200A", "U+2028", "U+2029",
     "U+202F", "U+205F", "U+3000"}
MessageInputs == {<<>>, <<" ", "\t">>, <<"\t", "a", " ", "\n">>}
ShortInputs == {<<>>, <<"a">>}
PlainInputs == {<<"a">>}
SentInputs == (MessageInputs \ {<<>>}) \cup PlainInputs
ChatUsernames == {"alice"}
ChatEmails == {"a@x.com"}
Backgrounds == {"FSC"}
InterestLists == {<<"ai">>}
ModelAnswers == {<<>>, <<"Consider", "biotech">>}
Faults == {"none", "retriever", "model"}
Workers == {1, 2}
Connection == {1}
ConcurrentInputs == {<<"\n">>, <<"a">>, <<"U+00A0", "b">>}
FormlessRoutes ==
    {"logout", "dashboard", "chat", "api_history", "api_sessions", "api_user_profile"}
GuardedRoutes == {"logout", "api_sessions", "api_user_profile"}

(* ----------------------------- constants ------------------------------- *)
None == 0
DATABASE_AVAILABLE == TRUE
UNAVAILABLE == <<"AI service is not available. Please check your API keys and dependencies.">>
APOLOGY == <<"I apologize, but I'm having trouble processing your question. Please try again.">>
DEMO_SESSION == -1

(* --------------------------- cookie (flask session) -------------------- *)
Has(c, k) == k \in DOMAIN c

Get(c, k) == IF k \in DOMAIN c THEN c[k] ELSE None

SetKey(c, k, v) == [x \in (DOMAIN c) \cup {k} |-> IF x = k THEN v ELSE c[x]]

EmptyCookie == [x \in {} |-> None]

(* ------------------------------ texts ---------------------------------- *)
RECURSIVE LStrip(_)
LStrip(s) == IF s = <<>> THEN s
             ELSE IF Head(s) \in Whitespace THEN LStrip(Tail(s)) ELSE s

RECURSIVE RStrip(_)
RStrip(s) == IF s = <<>> THEN s
             ELSE IF s[Len(s)] \in Whitespace THEN RStrip(SubSeq(s, 1, Len(s) - 1)) ELSE s

NoStrip(s) == s

Strip(s) == RStrip(LStrip(s))

hash_password(p) == <<"sha256", p>>

json_dumps(l) == <<"json", l>>

(* ------------------------------ ORDER BY ------------------------------- *)
RECURSIVE ByTimestampAsc(_, _, _)
ByTimestampAsc(rows, t, hi) ==
    IF t > hi THEN <<>>
    ELSE SelectSeq(rows, LAMBDA r : r.timestamp = t) \o ByTimestampAsc(rows, t + 1, hi)

RECURSIVE ByUpdatedAtDesc(_, _)
ByUpdatedAtDesc(rows, t) ==
    IF t < 0 THEN <<>>
    ELSE SelectSeq(rows, LAMBDA r : r.updated_at = t) \o ByUpdatedAtDesc(rows, t - 1)

Reverse(q) == [i \in 1..Len(q) |-> q[Len(q) + 1 - i]]

(* ------------------------------ the store ------------------------------ *)
DuplicateUsername(us, username, email) ==
    \E i \in 1..Len(us) : us[i].username = username

Duplicate(us, username, email) ==
    \E i \in 1..Len(us) : us[i].username = username \/ us[i].email = email

NewSession(ss, user_id, t) ==
    [session_id |-> Len(ss) + 1, user_id |-> user_id,
     session_name |-> "Career Counseling Session", updated_at |-> t]

create_session(ss, user_id, t) == Append(ss, NewSession(ss, user_id, t))

NewUser(us, username, email, password, full_name) ==
    [id |-> Len(us) + 1, username |-> username, email |-> email,
     password_hash |-> hash_password(password), full_name |-> full_name,
     educational_background |-> "NULL", interests |-> <<>>]

verify_user(us, username, password) ==
    {i \in 1..Len(us) : us[i].username = username
                        /\ us[i].password_hash = hash_password(password)}

save_message_rows(ms, session_id, user_id, message_type, message_text, t) ==
    Append(ms, [id |-> Len(ms) + 1, session_id |-> session_id, user_id |-> user_id,
                message_type |-> message_type, message_text |-> message_text,
                timestamp |-> t])

save_message_no_bump(ss, session_id, t) == ss

save_message_bump(ss, session_id, t) ==
    [i \in 1..Len(ss) |->
        IF session_id # None /\ ss[i].session_id = session_id
        THEN [ss[i] EXCEPT !.updated_at = t] ELSE ss[i]]

get_user_sessions(ss, user_id, t) ==
    ByUpdatedAtDesc(SelectSeq(ss, LAMBDA s : s.user_id = user_id), t)

MessagesOf(ms, session_id, user_id) ==
    SelectSeq(ms, LAMBDA m : session_id # None /\ m.session_id = session_id
                             /\ m.user_id = user_id)

get_chat_history_newest_first(ms, session_id, user_id, t) ==
    Reverse(ByTimestampAsc(MessagesOf(ms, session_id, user_id), 0, t))

get_chat_history(ms, session_id, user_id, t) ==
    ByTimestampAsc(MessagesOf(ms, session_id, user_id), 0, t)

update_user_profile(us, user_id, educational_background, interests) ==
    [i \in 1..Len(us) |->
        IF us[i].id = user_id
        THEN [us[i] EXCEPT !.educational_background = educational_background,
                           !.interests = json_dumps(interests)]
        ELSE us[i]]

(* --------------------------- answer generator -------------------------- *)
get_ai_response_unchecked(question, fault, answer) ==
    IF ~model THEN APOLOGY
    ELSE IF ~retriever
         THEN (IF fault = "model" THEN APOLOGY ELSE answer)
         ELSE IF fault \in {"retriever", "model"} THEN APOLOGY ELSE answer

get_ai_response(question, fault, answer) ==
    IF ~model THEN UNAVAILABLE
    ELSE IF ~retriever
         THEN (IF fault = "model" THEN APOLOGY ELSE answer)
         ELSE IF fault \in {"retriever", "model"} THEN APOLOGY ELSE answer

GenOutcome(fault) ==
    IF ~model THEN "unavailable"
    ELSE IF fault = "model" \/ (retriever /\ fault = "retriever") THEN "fault"
    ELSE "answered"

(* ------------------------------ responses ------------------------------ *)
Redirect(to) == [type |-> "redirect", to |-> to]

Html(template, error) == [type |-> "html", template |-> template, error |-> error]

JsonObject(keys, v) == [type |-> "json", shape |-> "object", keys |-> keys, json |-> v]

JsonArray(v) == [type |-> "json", shape |-> "array", keys |-> {}, json |-> v]

JsonError(message) == JsonObject({"error"}, [error |-> message])

Respond(route, status, body, db, gen) ==
    [route |-> route, status |-> status, body |-> body, db |-> db, gen |-> gen]

HistoryJson(h) ==
    [i \in 1..Len(h) |-> [type |-> h[i].message_type, text |-> h[i].message_text,
                          timestamp |-> h[i].timestamp]]

SessionsJson(l) ==
    [i \in 1..Len(l) |-> [session_id |-> l[i].session_id, session_name |-> l[i].session_name,
                          updated_at |-> l[i].updated_at]]

(* -------------------------------- Init --------------------------------- *)
(* A thread with no request: its position, the route and form of the     *)
(* request, the flask session of the request and whether the handler wrote *)
(* it, the handler's locals, its response, and the requests served so far. *)
Idle == [pc |-> "idle", route |-> "none", session |-> EmptyCookie, modified |-> FALSE,
         form |-> <<>>, session_id |-> None, user_id |-> None,
         user_message |-> <<>>, ai_response |-> <<>>, gen |-> "not_invoked",
         out |-> <<>>, served |-> 0]

Init ==
    /\ users = <<>>
    /\ sessions = <<>>
    /\ messages = <<>>
    /\ cookie = EmptyCookie
    /\ now = 0
    /\ model \in BOOLEAN
    /\ retriever \in BOOLEAN
    /\ inflight = [r \in Workers |-> Idle]
    /\ resp = Respond("start", 0, Html("landing.html", ""), {}, "not_invoked")

(* ------------------------------- routes -------------------------------- *)
Tick ==
    /\ now < MaxTime
    /\ now' = now + 1
    /\ UNCHANGED <<users, sessions, messages, cookie, model, retriever, inflight, resp>>

create_user_id(us, username, email) ==
    IF Duplicate(us, username, email) THEN None ELSE Len(us) + 1

(* The request arrives on thread r: flask opens the session from the       *)
(* cookie the browser sent and the handler starts with the form or JSON    *)
(* body of the request.                                                    *)
Receive(r, route, form) ==
    /\ inflight[r].pc = "idle"
    /\ inflight' = [inflight EXCEPT ![r] =
                       [Idle EXCEPT !.pc = "received",
                                    !.route = route,
                                    !.session = cookie,
                                    !.form = form,
                                    !.served = inflight[r].served + 1]]
    /\ UNCHANGED <<users, sessions, messages, cookie, now, model, retriever, resp>>

(* The response of thread r reaches the browser: flask saves the session   *)
(* into the cookie if the handler wrote it, and the thread is free.        *)
Deliver(r) ==
    LET l == inflight[r]
    IN
    /\ l.pc = "respond"
    /\ resp' = l.out
    /\ cookie' = IF l.modified THEN l.session ELSE cookie
    /\ inflight' = [inflight EXCEPT ![r] = [Idle EXCEPT !.served = l.served]]
    /\ UNCHANGED <<users, sessions, messages, now, model, retriever>>

(* Thread r moves on with its locals changed and the response `out` ready  *)
(* when the handler returns.                                               *)
Returns(r, out) == [inflight[r] EXCEPT !.pc = "respond", !.out = out]

(* signup on thread r: create_user up to the commit of its INSERT INTO     *)
(* users, the first of its two transactions.                               *)
SignupCreateUser(r) ==
    LET l == inflight[r]
        f == l.form
    IN
    /\ l.pc = "received" /\ l.route = "signup"
    /\ IF DATABASE_AVAILABLE
       THEN IF create_user_id(users, f.username, f.email) # None
            THEN /\ users' = Append(users, NewUser(users, f.username, f.email,
                                                   f.password, f.full_name))
                 /\ inflight' = [inflight EXCEPT ![r].pc = "signup_create_session",
                                                 ![r].user_id = Len(users) + 1]
            ELSE /\ users' = users
                 /\ inflight' = [inflight EXCEPT ![r] =
                       Returns(r, Respond("signup", 200,
                                          Html("signup.html", "Username or email already exists"),
                                          {"create_user"}, "not_invoked"))]
       ELSE /\ users' = users
            /\ inflight' = [inflight EXCEPT ![r] =
                  [Returns(r, Respond("signup", 302, Redirect("dashboard"), {}, "not_invoked"))
                   EXCEPT !.session = SetKey(SetKey(SetKey(l.session, "user_id", 1),
                                                    "username", f.username),
                                             "full_name", f.full_name),
                          !.modified = TRUE]]
    /\ UNCHANGED <<sessions, messages, cookie, now, model, retriever, resp>>

(* create_user's call of create_session, a transaction of its own, after   *)
(* which signup writes the session and redirects.                          *)
SignupCreateSession(r) ==
    LET l == inflight[r]
        f == l.form
    IN
    /\ l.pc = "signup_create_session"
    /\ sessions' = create_session(sessions, l.user_id, now)
    /\ inflight' = [inflight EXCEPT ![r] =
          [Returns(r, Respond("signup", 302, Redirect("dashboard"),
                              {"create_user", "create_session"}, "not_invoked"))
           EXCEPT !.session = SetKey(SetKey(SetKey(l.session, "user_id", l.user_id),
                                            "username", f.username),
                                     "full_name", f.full_name),
                  !.modified = TRUE]]
    /\ UNCHANGED <<users, messages, cookie, now, model, retriever, resp>>

(* login on thread r: verify_user, and the session keys written on success. *)
LoginVerifyUser(r) ==
    LET l == inflight[r]
        f == l.form
        found == verify_user(users, f.username, f.password)
    IN
    /\ l.pc = "received" /\ l.route = "login"
    /\ IF DATABASE_AVAILABLE
       THEN IF found # {}
            THEN LET user == users[CHOOSE i \in found : TRUE]
                 IN inflight' = [inflight EXCEPT
                       ![r].pc = "login_get_sessions",
                       ![r].user_id = user.id,
                       ![r].session =
                           SetKey(SetKey(SetKey(l.session, "user_id", user.id),
                                         "username", user.username),
                                  "full_name",
                                  IF user.full_name # "" THEN user.full_name
                                  ELSE user.username),
                       ![r].modified = TRUE]
            ELSE inflight' = [inflight EXCEPT ![r] =
                    Returns(r, Respond("login", 200,
                                       Html("login.html", "Invalid username or password"),
                                       {"verify_user"}, "not_invoked"))]
       ELSE inflight' = [inflight EXCEPT ![r] =
               [Returns(r, Respond("login", 302, Redirect("dashboard"), {}, "not_invoked"))
                EXCEPT !.session = SetKey(SetKey(SetKey(SetKey(l.session, "user_id", 1),
                                                        "username", f.username),
                                                 "full_name", f.username),
                                          "session_id", DEMO_SESSION),
                       !.modified = TRUE]]
    /\ UNCHANGED <<users, sessions, messages, cookie, now, model, retriever, resp>>

(* login's get_user_sessions: the most recently updated session is taken,  *)
(* if the user owns one.                                                   *)
LoginGetSessions(r) ==
    LET l == inflight[r]
        user_sessions == get_user_sessions(sessions, l.user_id, now)
    IN
    /\ l.pc = "login_get_sessions"
    /\ IF user_sessions # <<>>
       THEN inflight' = [inflight EXCEPT ![r] =
               [Returns(r, Respond("login", 302, Redirect("dashboard"),
                                   {"verify_user", "get_user_sessions"}, "not_invoked"))
                EXCEPT !.session = SetKey(l.session, "session_id",
                                          user_sessions[1].session_id)]]
       ELSE inflight' = [inflight EXCEPT ![r].pc = "login_create_session"]
    /\ UNCHANGED <<users, sessions, messages, cookie, now, model, retriever, resp>>

(* login's create_session for a user found without session. *)
LoginCreateSession(r) ==
    LET l == inflight[r]
    IN
    /\ l.pc = "login_create_session"
    /\ sessions' = create_session(sessions, l.user_id, now)
    /\ inflight' = [inflight EXCEPT ![r] =
          [Returns(r, Respond("login", 302, Redirect("dashboard"),
                              {"verify_user", "get_user_sessions", "create_session"},
                              "not_invoked"))
           EXCEPT !.session = SetKey(l.session, "session_id", Len(sessions) + 1)]]
    /\ UNCHANGED <<users, messages, cookie, now, model, retriever, resp>>

(* logout on thread r. *)
LogoutClear(r) ==
    LET l == inflight[r]
    IN
    /\ l.pc = "received" /\ l.route = "logout"
    /\ inflight' = [inflight EXCEPT ![r] =
          [Returns(r, Respond("logout", 302, Redirect("landing"), {}, "not_invoked"))
           EXCEPT !.session = EmptyCookie, !.modified = TRUE]]
    /\ UNCHANGED <<users, sessions, messages, cookie, now, model, retriever, resp>>

(* dashboard on thread r: the names are those of the session the request   *)
(* came with, the list is read now.                                        *)
DashboardGetSessions(r) ==
    LET l == inflight[r]
    IN
    /\ l.pc = "received" /\ l.route = "dashboard"
    /\ inflight' = [inflight EXCEPT ![r] =
          Returns(r,
            IF ~Has(l.session, "user_id")
            THEN Respond("dashboard", 302, Redirect("login"), {}, "not_invoked")
            ELSE Respond("dashboard", 200,
                         [type |-> "html", template |-> "dashboard.html", error |-> "",
                          username |-> Get(l.session, "username"),
                          full_name |-> Get(l.session, "full_name"),
                          sessions |-> IF DATABASE_AVAILABLE
                                       THEN SessionsJson(get_user_sessions(sessions,
                                                             l.session["user_id"], now))
                                       ELSE <<>>],
                         IF DATABASE_AVAILABLE THEN {"get_user_sessions"} ELSE {},
                         "not_invoked"))]
    /\ UNCHANGED <<users, sessions, messages, cookie, now, model, retriever, resp>>

(* chat on thread r: a session is created when the session the request    *)
(* came with names none.                                                   *)
ChatCreateSession(r) ==
    LET l == inflight[r]
    IN
    /\ l.pc = "received" /\ l.route = "chat"
    /\ IF ~Has(l.session, "user_id")
       THEN /\ inflight' = [inflight EXCEPT ![r] =
                  Returns(r, Respond("chat", 302, Redirect("login"), {}, "not_invoked"))]
            /\ sessions' = sessions
       ELSE LET page == Respond("chat", 200,
                                [type |-> "html", template |-> "chat.html", error |-> "",
                                 username |-> Get(l.session, "username"),
                                 full_name |-> Get(l.session, "full_name")],
                                IF ~Has(l.session, "session_id") /\ DATABASE_AVAILABLE
                                THEN {"create_session"} ELSE {},
                                "not_invoked")
            IN IF ~Has(l.session, "session_id")
               THEN /\ sessions' = IF DATABASE_AVAILABLE
                                   THEN create_session(sessions, l.session["user_id"], now)
                                   ELSE sessions
                    /\ inflight' = [inflight EXCEPT ![r] =
                          [Returns(r, page)
                           EXCEPT !.session = SetKey(l.session, "session_id",
                                                     IF DATABASE_AVAILABLE
                                                     THEN Len(sessions) + 1
                                                     ELSE DEMO_SESSION),
                                  !.modified = TRUE]]
               ELSE /\ sessions' = sessions
                    /\ inflight' = [inflight EXCEPT ![r] = Returns(r, page)]
    /\ UNCHANGED <<users, messages, cookie, now, model, retriever, resp>>

(* api_chat on thread r up to and including its first save_message: the   *)
(* session and the body are checked, the question is stored.  The INSERT   *)
(* reads the clock, then the UPDATE of the session does.                   *)
ApiChatSaveUser(r) ==
    LET l == inflight[r]
        user_message == Strip(l.form.message)
        session_id == Get(l.session, "session_id")
    IN
    /\ l.pc = "received" /\ l.route = "api_chat"
    /\ IF ~Has(l.session, "user_id")
       THEN /\ inflight' = [inflight EXCEPT ![r] =
                  Returns(r, Respond("api_chat", 401,
                                     JsonError("Not authenticated"), {}, "not_invoked"))]
            /\ UNCHANGED <<sessions, messages, now>>
       ELSE IF user_message = <<>>
       THEN /\ inflight' = [inflight EXCEPT ![r] =
                  Returns(r, Respond("api_chat", 400,
                                     JsonError("Message is empty"), {}, "not_invoked"))]
            /\ UNCHANGED <<sessions, messages, now>>
       ELSE LET user_id == l.session["user_id"]
            IN /\ IF DATABASE_AVAILABLE
                  THEN \E t2 \in now..MaxTime :
                       /\ messages' = save_message_rows(messages, session_id, user_id,
                                                        "user", user_message, now)
                       /\ sessions' = save_message_bump(sessions, session_id, t2)
                       /\ now' = t2
                  ELSE UNCHANGED <<sessions, messages, now>>
               /\ inflight' = [inflight EXCEPT ![r].pc = "answer",
                                               ![r].session_id = session_id,
                                               ![r].user_id = user_id,
                                               ![r].user_message = user_message]
    /\ UNCHANGED <<users, cookie, model, retriever, resp>>

(* get_ai_response on thread r. *)
ApiChatAnswer(r, fault, answer) ==
    /\ inflight[r].pc = "answer"
    /\ inflight' = [inflight EXCEPT
                       ![r].pc = "save_assistant",
                       ![r].ai_response =
                           get_ai_response(inflight[r].user_message, fault, answer),
                       ![r].gen = GenOutcome(fault)]
    /\ UNCHANGED <<users, sessions, messages, cookie, now, model, retriever, resp>>

(* The second save_message of thread r, after which api_chat returns. *)
ApiChatSaveAssistant(r) ==
    LET l == inflight[r]
    IN
    /\ l.pc = "save_assistant"
    /\ IF DATABASE_AVAILABLE
       THEN \E t2 \in now..MaxTime :
            /\ messages' = save_message_rows(messages, l.session_id, l.user_id,
                                             "assistant", l.ai_response, now)
            /\ sessions' = save_message_bump(sessions, l.session_id, t2)
            /\ now' = t2
       ELSE UNCHANGED <<sessions, messages, now>>
    /\ inflight' = [inflight EXCEPT ![r] =
          Returns(r, Respond("api_chat", 200,
                             JsonObject({"response", "session_id"},
                                        [response |-> l.ai_response,
                                         session_id |-> l.session_id]),
                             IF DATABASE_AVAILABLE THEN {"save_message"} ELSE {},
                             l.gen))]
    /\ UNCHANGED <<users, cookie, model, retriever, resp>>

(* api_history on thread r: the history of the session the request came    *)
(* with, read now.                                                         *)
ApiHistoryGet(r) ==
    LET l == inflight[r]
    IN
    /\ l.pc = "received" /\ l.route = "api_history"
    /\ inflight' = [inflight EXCEPT ![r] =
          Returns(r,
            IF ~Has(l.session, "user_id")
            THEN Respond("api_history", 200, JsonArray(<<>>), {}, "not_invoked")
            ELSE IF DATABASE_AVAILABLE
            THEN Respond("api_history", 200,
                         JsonArray(HistoryJson(get_chat_history(messages,
                                  Get(l.session, "session_id"), l.session["user_id"], now))),
                         {"get_chat_history"}, "not_invoked")
            ELSE Respond("api_history", 200, JsonArray(<<>>), {}, "not_invoked"))]
    /\ UNCHANGED <<users, sessions, messages, cookie, now, model, retriever, resp>>

(* api_sessions on thread r. *)
ApiSessionsGet(r) ==
    LET l == inflight[r]
    IN
    /\ l.pc = "received" /\ l.route = "api_sessions"
    /\ inflight' = [inflight EXCEPT ![r] =
          Returns(r,
            IF ~Has(l.session, "user_id")
            THEN Respond("api_sessions", 200, JsonArray(<<>>), {}, "not_invoked")
            ELSE IF DATABASE_AVAILABLE
            THEN Respond("api_sessions", 200,
                         JsonArray(SessionsJson(get_user_sessions(sessions,
                                               l.session["user_id"], now))),
                         {"get_user_sessions"}, "not_invoked")
            ELSE Respond("api_sessions", 200,
                         JsonArray(<<[session_id |-> DEMO_SESSION]>>),
                         {}, "not_invoked"))]
    /\ UNCHANGED <<users, sessions, messages, cookie, now, model, retriever, resp>>

(* api_user_profile answering without looking for user_id. *)
ApiUserProfileGetUnguarded(r) ==
    LET l == inflight[r]
    IN
    /\ l.pc = "received" /\ l.route = "api_user_profile"
    /\ inflight' = [inflight EXCEPT ![r] =
          Returns(r,
            Respond("api_user_profile", 200,
                    JsonObject({"username", "full_name", "educational_background",
                                "interests"},
                         [username |-> Get(l.session, "username"),
                          full_name |-> Get(l.session, "full_name"),
                          educational_background |-> "", interests |-> <<>>]),
                    {}, "not_invoked"))]
    /\ UNCHANGED <<users, sessions, messages, cookie, now, model, retriever, resp>>

(* api_user_profile on thread r: the session alone is read. *)
ApiUserProfileGet(r) ==
    LET l == inflight[r]
    IN
    /\ l.pc = "received" /\ l.route = "api_user_profile"
    /\ inflight' = [inflight EXCEPT ![r] =
          Returns(r,
            IF ~Has(l.session, "user_id")
            THEN Respond("api_user_profile", 401, JsonObject({}, <<>>), {}, "not_invoked")
            ELSE Respond("api_user_profile", 200,
                         JsonObject({"username", "full_name", "educational_background",
                                     "interests"},
                              [username |-> Get(l.session, "username"),
                               full_name |-> Get(l.session, "full_name"),
                               educational_background |-> "", interests |-> <<>>]),
                         {}, "not_invoked"))]
    /\ UNCHANGED <<users, sessions, messages, cookie, now, model, retriever, resp>>

(* api_update_profile on thread r. *)
ApiUpdateProfileSave(r) ==
    LET l == inflight[r]
        f == l.form
    IN
    /\ l.pc = "received" /\ l.route = "api_update_profile"
    /\ IF ~Has(l.session, "user_id")
       THEN /\ inflight' = [inflight EXCEPT ![r] =
                  Returns(r, Respond("api_update_profile", 401,
                                     JsonError("Not authenticated"), {}, "not_invoked"))]
            /\ users' = users
       ELSE /\ users' = IF DATABASE_AVAILABLE
                        THEN update_user_profile(users, l.session["user_id"],
                                                 f.educational_background, f.interests)
                        ELSE users
            /\ inflight' = [inflight EXCEPT ![r] =
                  Returns(r, Respond("api_update_profile", 200,
                                     JsonObject({"success"}, [success |-> TRUE]),
                                     IF DATABASE_AVAILABLE THEN {"update_user_profile"} ELSE {},
                                     "not_invoked"))]
    /\ UNCHANGED <<sessions, messages, cookie, now, model, retriever, resp>>

(* ---------------------------- specifications -------------------------- *)
(* The bodies of the requests. *)
SignupForm(u, e, p, f) == [username |-> u, email |-> e, password |-> p, full_name |-> f]

LoginForm(u, p) == [username |-> u, password |-> p]

ChatBody(m) == [message |-> m]

ProfileBody(b, i) == [educational_background |-> b, interests |-> i]

(* The requests received so far, on both threads. *)
RequestsServed == inflight[1].served + inflight[2].served

Quiet == \A r \in Workers : inflight[r].pc = "idle"

Next ==
    \/ Tick
    \/ \E r \in Workers, u \in ChatUsernames, e \in ChatEmails,
          p \in SignupPasswords, f \in FullNames :
          RequestsServed < MaxRequests /\ Receive(r, "signup", SignupForm(u, e, p, f))
    \/ \E r \in Workers, m \in ShortInputs :
          RequestsServed < MaxRequests /\ Receive(r, "api_chat", ChatBody(m))
    \/ \E r \in Workers, b \in Backgrounds, i \in InterestLists :
          RequestsServed < MaxRequests /\ Receive(r, "api_update_profile", ProfileBody(b, i))
    \/ \E r \in Workers, route \in GuardedRoutes :
          RequestsServed < MaxRequests /\ Receive(r, route, <<>>)
    \/ \E r \in Workers : SignupCreateUser(r)
    \/ \E r \in Workers : SignupCreateSession(r)
    \/ \E r \in Workers : LogoutClear(r)
    \/ \E r \in Workers : ApiChatSaveUser(r)
    \/ \E r \in Workers, f \in Faults, a \in ModelAnswers : ApiChatAnswer(r, f, a)
    \/ \E r \in Workers : ApiChatSaveAssistant(r)
    \/ \E r \in Workers : ApiSessionsGet(r)
    \/ \E r \in Workers : ApiUserProfileGet(r)
    \/ \E r \in Workers : ApiUpdateProfileSave(r)
    \/ \E r \in Workers : Deliver(r)

(* One account, signing up and logging out, and the four routes that ask   *)
(* for a logged-in user, on two threads.                                   *)
Spec == Init /\ [][Next]_vars

NextChat ==
    \/ Tick
    \/ \E r \in Workers, u \in ChatUsernames, e \in ChatEmails,
          p \in SignupPasswords, f \in FullNames :
          RequestsServed < MaxRequests /\ Receive(r, "signup", SignupForm(u, e, p, f))
    \/ \E r \in Workers, m \in MessageInputs :
          RequestsServed < MaxRequests /\ Receive(r, "api_chat", ChatBody(m))
    \/ \E r \in Workers :
          RequestsServed < MaxRequests /\ Receive(r, "chat", <<>>)
    \/ \E r \in Workers : SignupCreateUser(r)
    \/ \E r \in Workers : SignupCreateSession(r)
    \/ \E r \in Workers : ChatCreateSession(r)
    \/ \E r \in Workers : ApiChatSaveUser(r)
    \/ \E r \in Workers, f \in Faults, a \in ModelAnswers : ApiChatAnswer(r, f, a)
    \/ \E r \in Workers : ApiChatSaveAssistant(r)
    \/ \E r \in Workers : Deliver(r)

(* The conversation routes of one account on two threads, with messages    *)
(* that are blank or padded with whitespace.                               *)
SpecChat == Init /\ [][NextChat]_vars

NextHistory ==
    \/ Tick
    \/ \E r \in Connection, u \in ChatUsernames, e \in ChatEmails,
          p \in SignupPasswords, f \in FullNames :
          /\ Quiet /\ RequestsServed < MaxRequestsHistory
          /\ Receive(r, "signup", SignupForm(u, e, p, f))
    \/ \E r \in Connection, u \in ChatUsernames, p \in Passwords :
          /\ Quiet /\ RequestsServed < MaxRequestsHistory
          /\ Receive(r, "login", LoginForm(u, p))
    \/ \E r \in Connection, m \in SentInputs :
          /\ Quiet /\ RequestsServed < MaxRequestsHistory
          /\ Receive(r, "api_chat", ChatBody(m))
    \/ \E r \in Connection :
          /\ Quiet /\ RequestsServed < MaxRequestsHistory
          /\ Receive(r, "api_history", <<>>)
    \/ \E r \in Workers : SignupCreateUser(r)
    \/ \E r \in Workers : SignupCreateSession(r)
    \/ \E r \in Workers : LoginVerifyUser(r)
    \/ \E r \in Workers : LoginGetSessions(r)
    \/ \E r \in Workers : ApiChatSaveUser(r)
    \/ \E r \in Workers, f \in Faults, a \in ModelAnswers : ApiChatAnswer(r, f, a)
    \/ \E r \in Workers : ApiChatSaveAssistant(r)
    \/ \E r \in Workers : ApiHistoryGet(r)
    \/ \E r \in Workers : Deliver(r)

(* One account whose browser sends a request once the response to the one  *)
(* before has arrived: it signs up, logs in, chats and reads the history.  *)
SpecHistory == Init /\ [][NextHistory]_vars

NextUsers ==
    \/ Tick
    \/ \E r \in Workers, u \in Usernames, e \in Emails,
          p \in SignupPasswords, f \in FullNames :
          RequestsServed < MaxRequests /\ Receive(r, "signup", SignupForm(u, e, p, f))
    \/ \E r \in Workers, u \in Usernames, p \in SignupPasswords :
          RequestsServed < MaxRequests /\ Receive(r, "login", LoginForm(u, p))
    \/ \E r \in Workers :
          RequestsServed < MaxRequests /\ Receive(r, "logout", <<>>)
    \/ \E r \in Workers : SignupCreateUser(r)
    \/ \E r \in Workers : SignupCreateSession(r)
    \/ \E r \in Workers : LoginVerifyUser(r)
    \/ \E r \in Workers : LoginGetSessions(r)
    \/ \E r \in Workers : LoginCreateSession(r)
    \/ \E r \in Workers : LogoutClear(r)
    \/ \E r \in Workers : Deliver(r)

(* Two accounts behind one cookie, on two threads: the routes that write   *)
(* the cookie or the store.                                                *)
SpecUsers == Init /\ [][NextUsers]_vars

NextConcurrent ==
    \/ Tick
    \/ \E r \in Workers, u \in ChatUsernames, e \in ChatEmails,
          p \in SignupPasswords, f \in FullNames :
          inflight[r].served < MaxServed /\ Receive(r, "signup", SignupForm(u, e, p, f))
    \/ \E r \in Workers, u \in ChatUsernames, p \in SignupPasswords :
          inflight[r].served < MaxServed /\ Receive(r, "login", LoginForm(u, p))
    \/ \E r \in Workers, m \in ConcurrentInputs :
          inflight[r].served < MaxServed /\ Receive(r, "api_chat", ChatBody(m))
    \/ \E r \in Workers, b \in Backgrounds, i \in InterestLists :
          inflight[r].served < MaxServed /\ Receive(r, "api_update_profile", ProfileBody(b, i))
    \/ \E r \in Workers, route \in FormlessRoutes :
          inflight[r].served < MaxServed /\ Receive(r, route, <<>>)
    \/ \E r \in Workers : SignupCreateUser(r)
    \/ \E r \in Workers : SignupCreateSession(r)
    \/ \E r \in Workers : LoginVerifyUser(r)
    \/ \E r \in Workers : LoginGetSessions(r)
    \/ \E r \in Workers : LoginCreateSession(r)
    \/ \E r \in Workers : LogoutClear(r)
    \/ \E r \in Workers : DashboardGetSessions(r)
    \/ \E r \in Workers : ChatCreateSession(r)
    \/ \E r \in Workers : ApiChatSaveUser(r)
    \/ \E r \in Workers, f \in Faults, a \in ModelAnswers : ApiChatAnswer(r, f, a)
    \/ \E r \in Workers : ApiChatSaveAssistant(r)
    \/ \E r \in Workers : ApiHistoryGet(r)
    \/ \E r \in Workers : ApiSessionsGet(r)
    \/ \E r \in Workers : ApiUserProfileGet(r)
    \/ \E r \in Workers : ApiUpdateProfileSave(r)
    \/ \E r \in Workers : Deliver(r)

(* One account and every route, each thread serving MaxServed requests. *)
SpecConcurrent == Init /\ [][NextConcurrent]_vars

(* ------------------------------- claims -------------------------------- *)
Authenticated == Has(cookie, "user_id")

IsBlank(m) == \A i \in 1..Len(m) : m[i] \in Whitespace

StoredSessionIds == {sessions[j].session_id : j \in 1..Len(sessions)}

StoredUserIds == {users[j].id : j \in 1..Len(users)}

(* C1: every stored chat message has the session id of a stored chat       *)
(* session and the user id of a stored user.                               *)
C1_MessagesReferToStoredRows ==
    \A i \in 1..Len(messages) :
        /\ messages[i].session_id \in StoredSessionIds
        /\ messages[i].user_id \in StoredUserIds

(* C3: an authenticated /api/chat request whose message is empty or only   *)
(* whitespace returns 400, leaves the stored messages and every session's  *)
(* updated-at unchanged, and does not invoke the answer generator: the     *)
(* handler returns from its first step, whatever the other thread does.    *)
C3_BlankStep ==
    \A r \in Workers :
        LET l == inflight[r]
        IN (ApiChatSaveUser(r) /\ Has(l.session, "user_id") /\ IsBlank(l.form.message))
              => /\ inflight'[r].pc = "respond"
                 /\ inflight'[r].out.status = 400
                 /\ inflight'[r].out.body = JsonError("Message is empty")
                 /\ inflight'[r].out.gen = "not_invoked"
                 /\ inflight'[r].gen = "not_invoked"
                 /\ messages' = messages
                 /\ sessions' = sessions

C3_BlankMessageRejected == [][C3_BlankStep]_vars

C3_Witness ==
    /\ resp.route = "api_chat"
    /\ resp.status = 400
    /\ Authenticated
    /\ Len(messages) > 0

(* C4: a createUser call whose username or email is that of a stored user  *)
(* returns no identifier and leaves users, sessions and messages as they   *)
(* were; the signup route re-renders the form with an error and does not   *)
(* set user_id in the cookie.                                              *)
Taken(username, email) ==
    \E i \in 1..Len(users) : users[i].username = username \/ users[i].email = email

C4_DuplicateStep ==
    \A r \in Workers :
        LET l == inflight[r]
        IN /\ (SignupCreateUser(r) /\ Taken(l.form.username, l.form.email))
                 => /\ create_user_id(users, l.form.username, l.form.email) = None
                    /\ users' = users
                    /\ sessions' = sessions
                    /\ messages' = messages
                    /\ inflight'[r].pc = "respond"
                    /\ inflight'[r].session = l.session
                    /\ ~inflight'[r].modified
                    /\ inflight'[r].out.status = 200
                    /\ inflight'[r].out.body =
                          Html("signup.html", "Username or email already exists")
           /\ (Deliver(r) /\ l.route = "signup" /\ l.out.status = 200)
                 => cookie' = cookie

C4_DuplicateSignupRejected == [][C4_DuplicateStep]_vars

C4_Witness ==
    /\ resp.route = "signup"
    /\ resp.status = 200
    /\ resp.body.error # ""
    /\ Len(users) = 1
    /\ ~Authenticated

(* C7: an authenticated /api/chat request with a non-empty message returns *)
(* 200 with a text: the unavailability string when no model client is      *)
(* configured, the apology string when the retriever or the model raises,  *)
(* the model's answer otherwise.                                           *)
Raises(f) == f = "model" \/ (retriever /\ f = "retriever")

C7_AnswerStep ==
    \A r \in Workers :
        LET l == inflight[r]
        IN /\ (ApiChatSaveUser(r) /\ Has(l.session, "user_id") /\ ~IsBlank(l.form.message))
                 => inflight'[r].pc = "answer"
           /\ \A f \in Faults, a \in ModelAnswers :
                 ApiChatAnswer(r, f, a)
                    => /\ inflight'[r].pc = "save_assistant"
                       /\ inflight'[r].ai_response =
                             IF ~model THEN UNAVAILABLE
                             ELSE IF Raises(f) THEN APOLOGY ELSE a
           /\ ApiChatSaveAssistant(r)
                 => /\ inflight'[r].pc = "respond"
                    /\ inflight'[r].out.status = 200
                    /\ inflight'[r].out.body.shape = "object"
                    /\ inflight'[r].out.body.json.response = l.ai_response

C10_CreationStep ==
    Len(sessions') # Len(sessions)
        => /\ Len(sessions') = Len(sessions) + 1
           /\ LET new == sessions'[Len(sessions')]
              IN \/ \E r \in Workers :
                       /\ SignupCreateSession(r)
                       /\ new.user_id = inflight[r].user_id
                 \/ /\ users' = users
                    /\ \A j \in 1..Len(sessions) : sessions[j].user_id # new.user_id

C10_NoSecondSession == [][C10_CreationStep]_vars

(* C2: for a user who signs up and then logs in, each /api/chat request    *)
(* with a non-empty message returns a non-empty response and the session   *)
(* id assigned at login, and /api/history returns, for each request in     *)
(* order, a 'user' entry with the question followed by an 'assistant'      *)
(* entry with the returned answer: 2k entries after k requests.            *)
History(ms, c, t) ==
    HistoryJson(get_chat_history(ms, Get(c, "session_id"), Get(c, "user_id"), t))

C2_LoginStep ==
    \A r \in Workers :
        LET l == inflight[r]
        IN (/\ Deliver(r)
            /\ resp.route = "signup" /\ resp.status = 302
            /\ l.route = "login" /\ l.out.status = 302
            /\ Get(cookie', "user_id") = Get(cookie, "user_id"))
              => /\ Has(cookie', "session_id")
                 /\ \E j \in 1..Len(sessions') :
                       /\ sessions'[j].session_id = cookie'["session_id"]
                       /\ sessions'[j].user_id = cookie'["user_id"]
                 /\ History(messages', cookie', now') = <<>>

C2_ChatStep ==
    \A r \in Workers :
        LET l == inflight[r]
            before == History(messages, l.session, now)
            after == History(messages', l.session, now')
            n == Len(before)
        IN /\ (/\ ApiChatSaveUser(r)
               /\ Has(l.session, "user_id") /\ Has(l.session, "session_id")
               /\ l.form.message # <<>>)
                 => /\ inflight'[r].pc = "answer"
                    /\ Len(after) = n + 1
                    /\ SubSeq(after, 1, n) = before
                    /\ after[n + 1].type = "user"
                    /\ after[n + 1].text = l.form.message
           /\ (ApiChatSaveAssistant(r) /\ Has(l.session, "session_id"))
                 => LET out == inflight'[r].out
                    IN /\ out.status = 200
                       /\ out.body.json.response # <<>>
                       /\ out.body.json.session_id = l.session["session_id"]
                       /\ n >= 1
                       /\ before[n].type = "user"
                       /\ before[n].text = l.user_message
                       /\ Len(after) = n + 1
                       /\ SubSeq(after, 1, n) = before
                       /\ after[n + 1].type = "assistant"
                       /\ after[n + 1].text = out.body.json.response
           /\ (Deliver(r) /\ l.route = "api_chat") => cookie' = cookie

C2_HistoryStep ==
    \A r \in Workers :
        LET l == inflight[r]
        IN (ApiHistoryGet(r) /\ Has(l.session, "user_id"))
              => /\ inflight'[r].out.status = 200
                 /\ inflight'[r].out.body.json = History(messages, l.session, now)

C2_ChatThenHistory == [][C2_LoginStep /\ C2_ChatStep /\ C2_HistoryStep]_vars

(* C2 as amended: a message with a character that is not whitespace is    *)
(* answered 200 with the session id assigned at login and the text of the  *)
(* answer generator, which is empty only when the hosted model answered    *)
(* with the empty text; /api/history then ends with a 'user' entry holding *)
(* the message without its leading and trailing whitespace, followed by an *)
(* 'assistant' entry holding the returned answer.  A message of whitespace *)
(* only is answered 400 and adds no entry.                                 *)
C2_ChatStepStripped ==
    \A r \in Workers :
        LET l == inflight[r]
            before == History(messages, l.session, now)
            after == History(messages', l.session, now')
            n == Len(before)
        IN /\ (/\ ApiChatSaveUser(r)
               /\ Has(l.session, "user_id") /\ Has(l.session, "session_id"))
                 => IF IsBlank(l.form.message)
                    THEN /\ inflight'[r].pc = "respond"
                         /\ inflight'[r].out.status = 400
                         /\ after = before
                    ELSE /\ inflight'[r].pc = "answer"
                         /\ Len(after) = n + 1
                         /\ SubSeq(after, 1, n) = before
                         /\ after[n + 1].type = "user"
                         /\ after[n + 1].text = Strip(l.form.message)
           /\ \A f \in Faults, a \in ModelAnswers :
                 (ApiChatAnswer(r, f, a) /\ inflight'[r].ai_response = <<>>)
                    => model /\ ~Raises(f) /\ a = <<>>
           /\ (ApiChatSaveAssistant(r) /\ Has(l.session, "session_id"))
                 => LET out == inflight'[r].out
                    IN /\ out.status = 200
                       /\ out.body.json.response = l.ai_response
                       /\ out.body.json.session_id = l.session["session_id"]
                       /\ n >= 1
                       /\ before[n].type = "user"
                       /\ before[n].text = l.user_message
                       /\ Len(after) = n + 1
                       /\ SubSeq(after, 1, n) = before
                       /\ after[n + 1].type = "assistant"
                       /\ after[n + 1].text = out.body.json.response
           /\ (Deliver(r) /\ l.route = "api_chat") => cookie' = cookie

C2_ChatThenStrippedHistory ==
    [][C2_LoginStep /\ C2_ChatStepStripped /\ C2_HistoryStep]_vars

C2_Witness ==
    /\ resp.route = "api_history"
    /\ Authenticated
    /\ Get(cookie, "session_id") = 1
    /\ Len(messages) = 4
    /\ Len(resp.body.json) = 4
    /\ resp.body.json[3].type = "user"
    /\ resp.body.json[2].text = <<>>
    /\ resp.body.json[4].text # <<>>

(* C5: for every session, user, role and text, after save_message(session, *)
(* user, role, text) the list get_chat_history(session, user) ends with    *)
(* that message, with the same role and text, after every message that the *)
(* list held before, also within one timestamp second.  The calls are the  *)
(* two save_message calls of api_chat on a thread.                         *)
C5_SaveOrder ==
    \A s \in StoredSessionIds, u \in StoredUserIds :
        get_chat_history(messages, s, u, now) = MessagesOf(messages, s, u)

C5_SavedLast(session_id, user_id, role, text) ==
    LET before == get_chat_history(messages, session_id, user_id, now)
        after == get_chat_history(messages', session_id, user_id, now')
        n == Len(before)
    IN /\ Len(after) = n + 1
       /\ SubSeq(after, 1, n) = before
       /\ after[n + 1].message_type = role
       /\ after[n + 1].message_text = text

C5_SaveStep ==
    \A r \in Workers :
        /\ (ApiChatSaveUser(r) /\ inflight'[r].pc = "answer")
              => C5_SavedLast(inflight'[r].session_id, inflight'[r].user_id,
                              "user", inflight'[r].user_message)
        /\ ApiChatSaveAssistant(r)
              => C5_SavedLast(inflight[r].session_id, inflight[r].user_id,
                              "assistant", inflight[r].ai_response)

C5_HistoryAfterSave == [][C5_SaveStep /\ C5_SaveOrder']_vars

(* C6: getUserSessions(user) is ordered by updated-at descending, and      *)
(* immediately after saveMessage on a session S owned by that user, S is   *)
(* the first element of getUserSessions(user).  The calls are the two      *)
(* save_message calls of api_chat on a thread.                             *)
IsSortedDesc(l) == \A i, j \in 1..Len(l) : i < j => l[i].updated_at >= l[j].updated_at

C6_AlwaysSorted ==
    \A u \in StoredUserIds : IsSortedDesc(get_user_sessions(sessions, u, now))

Owns(u, s) == \E j \in 1..Len(sessions) : sessions[j].session_id = s /\ sessions[j].user_id = u

C6_Saves(r) ==
    \/ ApiChatSaveUser(r) /\ inflight'[r].pc = "answer"
    \/ ApiChatSaveAssistant(r)

C6_FrontStep ==
    \A r \in Workers :
        LET l == inflight[r]
        IN (C6_Saves(r) /\ Owns(Get(l.session, "user_id"), Get(l.session, "session_id")))
              => get_user_sessions(sessions', l.session["user_id"], now')[1].session_id
                    = l.session["session_id"]

C6_SavedSessionFirst == [][C6_FrontStep /\ C6_AlwaysSorted']_vars

(* C6 as amended: the list is ordered by updated-at descending, and right  *)
(* after saveMessage on S the updated-at of S is the current second and    *)
(* every session listed before S was created before S and carries that     *)
(* same updated-at; S is first when no other session of the user does.     *)
C6_TieStep ==
    \A r \in Workers :
        LET l == inflight[r]
        IN (C6_Saves(r) /\ Owns(Get(l.session, "user_id"), Get(l.session, "session_id")))
              => LET list == get_user_sessions(sessions', l.session["user_id"], now')
                     S == l.session["session_id"]
                 IN \E k \in 1..Len(list) :
                       /\ list[k].session_id = S
                       /\ list[k].updated_at = now'
                       /\ \A i \in 1..(k - 1) :
                             list[i].updated_at = now' /\ list[i].session_id < S
                       /\ (\A i \in 1..Len(list) : i # k => list[i].updated_at # now')
                             => k = 1

C6_SavedSessionFirstUnlessTied == [][C6_TieStep /\ C6_AlwaysSorted']_vars

C6_Witness ==
    /\ resp.route = "api_chat" /\ resp.status = 200
    /\ Authenticated
    /\ Get(cookie, "session_id") = 2
    /\ LET l == get_user_sessions(sessions, cookie["user_id"], now)
       IN Len(l) = 2 /\ l[1].session_id = 2 /\ l[2].updated_at < l[1].updated_at

(* C8: a request without user_id in the cookie to /api/chat, /api/sessions, *)
(* /api/user-profile or /api/update-profile is answered 401 with a JSON    *)
(* body {"error": message} and changes nothing in the store.  Such a       *)
(* request is answered by the first step of its handler.                   *)
AuthRoutes == {"api_chat", "api_sessions", "api_user_profile", "api_update_profile"}

C8_Unauthenticated(r) ==
    /\ inflight[r].pc = "received"
    /\ inflight[r].route \in AuthRoutes
    /\ ~Has(inflight[r].session, "user_id")
    /\ inflight'[r] # inflight[r]

C8_UnauthStep ==
    \A r \in Workers :
        C8_Unauthenticated(r)
            => /\ inflight'[r].pc = "respond"
               /\ inflight'[r].out.status = 401
               /\ inflight'[r].out.body.type = "json"
               /\ inflight'[r].out.body.keys = {"error"}
               /\ store' = store

C8_Unauthenticated401 == [][C8_UnauthStep]_vars

(* C8 as amended: /api/chat and /api/update-profile answer 401 with        *)
(* {"error": message}, /api/user-profile answers 401 with an empty JSON    *)
(* object, /api/sessions answers 200 with an empty JSON list; none of the  *)
(* four changes the store.                                                 *)
C8_UnauthStepPerRoute ==
    \A r \in Workers :
        C8_Unauthenticated(r)
            => LET route == inflight[r].route
                   out == inflight'[r].out
               IN /\ inflight'[r].pc = "respond"
                  /\ out.route = route
                  /\ out.body.type = "json"
                  /\ store' = store
                  /\ route \in {"api_chat", "api_update_profile"}
                        => out.status = 401 /\ out.body = JsonError("Not authenticated")
                  /\ route = "api_user_profile"
                        => out.status = 401 /\ out.body = JsonObject({}, <<>>)
                  /\ route = "api_sessions"
                        => out.status = 200 /\ out.body = JsonArray(<<>>)

C8_UnauthenticatedPerRoute == [][C8_UnauthStepPerRoute]_vars

C8_Witness ==
    /\ ~Authenticated
    /\ resp.route = "api_sessions"
    /\ resp.status = 200
    /\ Len(sessions) > 0

(* C9: after the response of /logout the cookie holds none of user_id,     *)
(* username, full_name, session_id, and it holds no user_id again until    *)
(* the response of a successful signup or login POST; a /dashboard or      *)
(* /chat request sent meanwhile is redirected to login and no request sent *)
(* meanwhile calls the store but for create_user and verify_user.          *)
CookieKeys == {"user_id", "username", "full_name", "session_id"}

C9_LogoutDelivered ==
    \A r \in Workers :
        (Deliver(r) /\ inflight[r].route = "logout")
            => (DOMAIN cookie') \cap CookieKeys = {}

C9_LoggedOutDelivery ==
    \A r \in Workers :
        LET l == inflight[r]
        IN /\ (Deliver(r) /\ ~Authenticated /\ Has(cookie', "user_id"))
                 => l.route \in {"signup", "login"} /\ l.out.status = 302
           /\ (Deliver(r) /\ ~Has(l.session, "user_id") /\ ~l.modified)
                 => /\ l.out.db \subseteq {"create_user", "verify_user"}
                    /\ l.route \in {"dashboard", "chat"}
                          => l.out.status = 302 /\ l.out.body = Redirect("login")

C9_LoggedOutUntilLoginOverlapped == [][C9_LogoutDelivered /\ C9_LoggedOutDelivery]_vars

(* C11: when two /api/chat requests for one chat session overlap, every    *)
(* interleaving of their steps leaves the history of a sequential          *)
(* execution: each stored answer comes right after its own question in     *)
(* the session's history, and once no request is in flight every history   *)
(* is a sequence of question/answer pairs.                                 *)
C11_Pairs ==
    Quiet =>
        \A s \in StoredSessionIds, u \in StoredUserIds :
            LET h == get_chat_history(messages, s, u, now)
            IN /\ Len(h) % 2 = 0
               /\ \A i \in 1..Len(h) :
                     h[i].message_type = IF i % 2 = 1 THEN "user" ELSE "assistant"

C11_AnswerStep ==
    \A r \in Workers :
        (inflight[r].pc = "save_assistant" /\ inflight[r].session_id # None
         /\ ApiChatSaveAssistant(r))
            => LET h == get_chat_history(messages', inflight[r].session_id,
                                         inflight[r].user_id, now')
                   n == Len(h)
               IN /\ n >= 2
                  /\ h[n].message_type = "assistant"
                  /\ h[n].message_text = inflight[r].ai_response
                  /\ h[n - 1].message_type = "user"
                  /\ h[n - 1].message_text = inflight[r].user_message

C11_ConcurrentChatsSerialize == [][C11_AnswerStep /\ C11_Pairs']_vars

(* C12: whenever the cookie holds both user_id and session_id, session_id  *)
(* is the id of a stored chat session whose owner is user_id; a signup or  *)
(* login never leaves another user's session_id in the cookie.             *)
C12_CookieSessionOwned ==
    (Has(cookie, "user_id") /\ Has(cookie, "session_id"))
        => Owns(cookie["user_id"], cookie["session_id"])

====
